---- MODULE Spec2Model ----
(***************************************************************************)
(* NighttimeLightModeller.processAlgorithm                                 *)
(* (src/nighttimelight_modeller.py): the pixel-wise regression run, from   *)
(* parameter validation to the written prediction rasters.                 *)
(*                                                                         *)
(* Numbers.  A raster value, a prediction or a metric is a pair <<n, d>>   *)
(* standing for the rational n/d (d > 0); <<0, 0>> is NaN.  The regression *)
(* is computed in exact arithmetic from the closed forms of the estimators *)
(* (ordinary least squares, ridge and lasso with one feature, least        *)
(* squares on the degree-2 basis); binary rounding of those results is not *)
(* represented.  rmse_vals holds the mean squared residual, the radicand   *)
(* of the RMSE.  int(idx/n_pixels*100), where rounding decides the value,  *)
(* is computed as IEEE-754 double arithmetic computes it.                  *)
(***************************************************************************)
EXTENDS Integers, Sequences, FiniteSets, TLC

\* Bounds of the input families.
MaxLayers == 3
MaxDim == 2
WideW == 200

----------------------------------------------------------------------------
(* Numbers *)

NaN == <<0, 0>>
None == <<>>

Abs(x) == IF x < 0 THEN 0 - x ELSE x
Sign(x) == IF x < 0 THEN 0 - 1 ELSE IF x > 0 THEN 1 ELSE 0
Max(a, b) == IF a >= b THEN a ELSE b

RECURSIVE Gcd(_, _)
Gcd(a, b) == IF b = 0 THEN a ELSE Gcd(b, a % b)

Rat(n, d) ==
    IF d = 0 THEN NaN
    ELSE LET g == Gcd(Abs(n), Abs(d))
             s == IF d < 0 THEN 0 - 1 ELSE 1
         IN  <<(s * n) \div g, (s * d) \div g>>

F(i) == <<i, 1>>

IsNaN(x) == x[2] = 0

\* numpy's elementwise ==: NaN equals nothing, itself included.
FEq(a, b) == ~IsNaN(a) /\ ~IsNaN(b) /\ a[1] * b[2] = b[1] * a[2]

FLess(a, b) == a[1] * b[2] < b[1] * a[2]

RECURSIVE SumSeq(_)
SumSeq(s) == IF Len(s) = 0 THEN 0 ELSE s[Len(s)] + SumSeq(SubSeq(s, 1, Len(s) - 1))

RECURSIVE Pow2(_)
Pow2(k) == IF k <= 0 THEN 1 ELSE 2 * Pow2(k - 1)

\* floor(log2(a / b)) for a, b > 0
RECURSIVE Log2Floor(_, _)
Log2Floor(a, b) ==
    IF a >= b THEN (IF a >= 2 * b THEN 1 + Log2Floor(a, 2 * b) ELSE 0)
    ELSE Log2Floor(2 * a, b) - 1

\* (a * 2^k) mod n
RECURSIVE MulPow2Mod(_, _, _)
MulPow2Mod(a, k, n) == IF k = 0 THEN a % n ELSE MulPow2Mod((2 * a) % n, k - 1, n)

ISqrt(k) == CHOOSE r \in 0..k : r * r <= k /\ (r + 1) * (r + 1) > k

----------------------------------------------------------------------------
(* Text: a string is a sequence of one-character strings *)

Digits == {"0", "1", "2", "3", "4", "5", "6", "7", "8", "9"}

DigitVal(c) ==
    CASE c = "0" -> 0 [] c = "1" -> 1 [] c = "2" -> 2 [] c = "3" -> 3
      [] c = "4" -> 4 [] c = "5" -> 5 [] c = "6" -> 6 [] c = "7" -> 7
      [] c = "8" -> 8 [] c = "9" -> 9

\* str.split(',')
RECURSIVE Split(_)
Split(s) ==
    IF \A i \in 1..Len(s) : s[i] # ","
    THEN <<s>>
    ELSE LET k == CHOOSE i \in 1..Len(s) :
                      s[i] = "," /\ \A j \in 1..(i - 1) : s[j] # ","
         IN  <<SubSeq(s, 1, k - 1)>> \o Split(SubSeq(s, k + 1, Len(s)))

\* str.strip()
RECURSIVE Strip(_)
Strip(s) ==
    IF Len(s) = 0 THEN s
    ELSE IF s[1] = " " THEN Strip(Tail(s))
    ELSE IF s[Len(s)] = " " THEN Strip(SubSeq(s, 1, Len(s) - 1))
    ELSE s

\* str.isdigit()
IsDigit(s) == Len(s) > 0 /\ \A i \in 1..Len(s) : s[i] \in Digits

\* int(x) of a string that is digits with surrounding blanks
RECURSIVE DecimalValue(_)
DecimalValue(s) ==
    IF Len(s) = 0 THEN 0
    ELSE 10 * DecimalValue(SubSeq(s, 1, Len(s) - 1)) + DigitVal(s[Len(s)])

IntOf(x) == DecimalValue(Strip(x))

\* [int(x) for x in fy_str.split(',') if x.strip().isdigit()]
ParseFutureYears(s) ==
    LET toks == Split(s)
        keep == SelectSeq(toks, LAMBDA x : IsDigit(Strip(x)))
    IN  [i \in 1..Len(keep) |-> IntOf(keep[i])]

ModelNames == <<"Linear", "Polynomial", "Ridge", "Lasso">>
NormNames == <<"None", "MinMax", "Z-score">>

\* np.arange(2013, 2013 + len(paths))
Years(N) == [t \in 1..N |-> 2013 + (t - 1)]

----------------------------------------------------------------------------
(* The per-pixel fit: lines 144-170 *)

SeqMax(s) == CHOOSE m \in {s[i] : i \in 1..Len(s)} : \A i \in 1..Len(s) : s[i] <= m
SeqMin(s) == CHOOSE m \in {s[i] : i \in 1..Len(s)} : \A i \in 1..Len(s) : m <= s[i]

\* The slope <<wn, wd>> of the one-feature estimators, from the centred sums
\* scaled by N: Sxx = N*sum(x^2) - sum(x)^2, Sxy and Syy likewise.
\* LinearRegression: Sxy/Sxx.  Ridge(alpha=1): Sxy/(Sxx + N).  Lasso(alpha=1):
\* the soft-thresholded slope; fitted on the series divided by the scaler's
\* scale c (1 without scaler, max - min for MinMaxScaler, the standard
\* deviation sqrt(Syy)/N for StandardScaler) and mapped back, its threshold
\* in original units is N*N*c.  A zero scale is replaced by 1 by the scalers;
\* the series is then constant and the slope 0.  Up to three observations
\* the z-score threshold is never exceeded; beyond, the deviation is taken
\* to one decimal.
Slope(model_name, norm_name, N, Sxx, Sxy, Syy, range) ==
    IF Sxx = 0 THEN <<0, 1>>
    ELSE CASE model_name = "Linear" -> <<Sxy, Sxx>>
           [] model_name = "Ridge" -> <<Sxy, Sxx + N>>
           [] model_name = "Lasso" ->
                CASE norm_name = "None" ->
                        <<Sign(Sxy) * Max(Abs(Sxy) - N * N, 0), Sxx>>
                  [] norm_name = "MinMax" ->
                        <<Sign(Sxy) * Max(Abs(Sxy) - N * N * range, 0), Sxx>>
                  [] norm_name = "Z-score" ->
                        IF Sxy * Sxy <= N * N * Syy THEN <<0, Sxx>>
                        ELSE Rat(Sign(Sxy) * Max(10 * Abs(Sxy) - N * ISqrt(100 * Syy), 0),
                                 10 * Sxx)

\* LinearRegression / Ridge / Lasso on the single feature `years`.
FitLine(model_name, norm_name, ys, fs) ==
    LET N == Len(ys)
        xs == Years(N)
        Sx == SumSeq(xs)
        Sy == SumSeq(ys)
        Sxx == N * SumSeq([t \in 1..N |-> xs[t] * xs[t]]) - Sx * Sx
        Sxy == N * SumSeq([t \in 1..N |-> xs[t] * ys[t]]) - Sx * Sy
        Syy == N * SumSeq([t \in 1..N |-> ys[t] * ys[t]]) - Sy * Sy
        w == Slope(model_name, norm_name, N, Sxx, Sxy, Syy, SeqMax(ys) - SeqMin(ys))
        wn == w[1]
        wd == w[2]
    IN  [pred |-> [j \in 1..Len(fs) |-> Rat(Sy * wd + wn * (N * fs[j] - Sx), N * wd)],
         r2 |-> IF N < 2 THEN NaN
                ELSE IF Syy = 0 THEN F(1)
                ELSE Rat(wn * (2 * wd * Sxy - wn * Sxx), wd * wd * Syy),
         mse |-> Rat(Syy * wd * wd - 2 * wn * wd * Sxy + wn * wn * Sxx, N * N * wd * wd)]

\* LinearRegression on PolynomialFeatures(degree=2): columns 1, x, x^2.
\* Two observations leave the system underdetermined and lstsq returns the
\* minimum-norm coefficients; three or more determine the parabola, which
\* does not depend on the origin of x, so x - 2013 is used.
FitPoly(ys, fs) ==
    LET N == Len(ys)
        xs == Years(N)
        Sy == SumSeq(ys)
        Syy == N * SumSeq([t \in 1..N |-> ys[t] * ys[t]]) - Sy * Sy
    IN  IF N < 2 THEN
            [pred |-> [j \in 1..Len(fs) |-> F(Sy)], r2 |-> NaN, mse |-> F(0)]
        ELSE IF N = 2 THEN
            LET dx == xs[2] - xs[1]
                dq == xs[2] * xs[2] - xs[1] * xs[1]
                dy == ys[2] - ys[1]
                G == dx * dx + dq * dq
                Sx == xs[1] + xs[2]
                Sq == xs[1] * xs[1] + xs[2] * xs[2]
            IN  [pred |-> [j \in 1..Len(fs) |->
                             Rat(Sy * G + dy * (dx * (2 * fs[j] - Sx)
                                               + dq * (2 * fs[j] * fs[j] - Sq)),
                                 2 * G)],
                 r2 |-> F(1), mse |-> F(0)]
        ELSE
            LET ts == [t \in 1..N |-> t - 1]
                St == SumSeq(ts)
                Sq == SumSeq([t \in 1..N |-> ts[t] * ts[t]])
                A == N * Sq - St * St
                B == N * SumSeq([t \in 1..N |-> ts[t] * ts[t] * ts[t]]) - St * Sq
                C == N * SumSeq([t \in 1..N |-> ts[t] * ts[t] * ts[t] * ts[t]]) - Sq * Sq
                P == N * SumSeq([t \in 1..N |-> ts[t] * ys[t]]) - St * Sy
                Q == N * SumSeq([t \in 1..N |-> ts[t] * ts[t] * ys[t]]) - Sq * Sy
                D == A * C - B * B
                w1 == P * C - Q * B
                w2 == A * Q - B * P
            IN  [pred |-> [j \in 1..Len(fs) |->
                             LET u == fs[j] - 2013
                             IN  Rat(Sy * D + w1 * (N * u - St) + w2 * (N * u * u - Sq),
                                     N * D)],
                 r2 |-> IF Syy = 0 THEN F(1) ELSE Rat(w1 * P + w2 * Q, D * Syy),
                 mse |-> Rat(Syy * D - w1 * P - w2 * Q, N * N * D)]

\* Lines 144-170 for one pixel: normalise, fit, predict, inverse-transform,
\* score.  Both scalers are affine and are undone after the prediction, so
\* the least-squares and ridge results in original units do not depend on
\* them; the lasso penalty does (Slope).
FitPixel(model_name, norm_name, ys, fs) ==
    IF model_name = "Polynomial" THEN FitPoly(ys, fs)
    ELSE FitLine(model_name, norm_name, ys, fs)

----------------------------------------------------------------------------
(* int(idx/n_pixels*100), line 172, in IEEE-754 double arithmetic.  When    *)
(* 100*idx/n is not an integer the rounding error cannot reach the next    *)
(* integer and the result is the floor.  When it is an integer k, the      *)
(* quotient idx/n is rounded to 53 bits first: rounded up, the product is  *)
(* at least k; rounded down by r/n units of the last place, the product    *)
(* rounds back to k only if the deficit is at most half the gap below k.   *)
IntPct(i, n) ==
    LET k == (100 * i) \div n
    IN  IF i = 0 \/ (100 * i) % n # 0 THEN k
        ELSE LET a == Log2Floor(i, n)
                 r == MulPow2Mod(i, 52 - a, n)
                 m == Log2Floor(k, 1)
                 deficit == IF k = Pow2(m) THEN 200 * r ELSE 100 * r
             IN  IF r = 0 \/ 2 * r > n THEN k
                 ELSE IF deficit <= n * Pow2(m - a - 1) THEN k
                 ELSE k - 1

\* The report is issued at every pixel.
ProgressStep_One(n) == 1

\* max(1, n_pixels//100), line 171
ProgressStep(n) == Max(1, n \div 100)

----------------------------------------------------------------------------
(* Inputs: the selected layers and the parameter strings *)

Kinds == {"rise", "fall", "flat", "gap", "nan"}

\* The value of a pixel of the given kind in the t-th selected raster.
SeriesValue(kind, t) ==
    CASE kind = "rise" -> F(t)
      [] kind = "fall" -> IF t = 1 THEN F(9) ELSE F(0)
      [] kind = "flat" -> F(1)
      [] kind = "gap" -> IF t = 2 THEN F(0 - 1) ELSE F(1)
      [] kind = "nan" -> IF t = 1 THEN NaN ELSE F(1)

\* A raster is filled, in row-major order, with pixels of one kind or of two
\* kinds in turn.
Patterns == {<<k>> : k \in Kinds} \cup {<<k, l>> : k \in Kinds, l \in Kinds}

MkBand(pat, h, w, t) ==
    [r \in 1..h |-> [c \in 1..w |->
        SeriesValue(pat[(((r - 1) * w + (c - 1)) % Len(pat)) + 1], t)]]

FY_2015 == <<"2", "0", "1", "5">>
FY_2015_x_2016 == <<"2", "0", "1", "5", ",", " ", "x", ",", "2", "0", "1", "6", " ">>
FY_x == <<"x", ",", " ">>
FY_empty == <<>>

SmallShapes == (1..MaxDim) \X (1..MaxDim)

\* bad: the index of a layer that is not valid (0: none); odd: the index of
\* a layer one column wider than the others (0: none).
GridConfigs ==
    [n : 2..MaxLayers, bad : {0}, odd : {0}, shape : SmallShapes, pat : Patterns,
     nodata : {None, F(0 - 1), NaN}, fy : {FY_2015, FY_2015_x_2016},
     model : {0}, norm : {0}]

ModelConfigs ==
    [n : 2..MaxLayers, bad : {0}, odd : {0}, shape : {<<1, 1>>},
     pat : {<<k>> : k \in Kinds \ {"nan"}}, nodata : {F(0 - 1)}, fy : {FY_2015_x_2016},
     model : 0..3, norm : 0..2]

WideConfigs ==
    [n : {2}, bad : {0}, odd : {0}, shape : {<<1, WideW>>},
     pat : {<<k>> : k \in Kinds} \cup {<<k, "gap">> : k \in Kinds},
     nodata : {F(0 - 1)}, fy : {FY_2015}, model : {0}, norm : {0}]

FaultConfigs ==
    {c \in [n : 0..MaxLayers, bad : {0, 1}, odd : 0..MaxLayers, shape : {<<1, 2>>},
            pat : {<<"rise", "gap">>}, nodata : {F(0 - 1)},
            fy : {FY_2015, FY_2015_x_2016, FY_x, FY_empty}, model : {0}, norm : {0}] :
        c.bad <= c.n /\ c.odd \in {0, c.n}}

Configs == GridConfigs \cup ModelConfigs \cup WideConfigs \cup FaultConfigs

MkLayers(c) ==
    [t \in 1..c.n |->
        [valid |-> t # c.bad,
         nodata |-> c.nodata,
         band |-> MkBand(c.pat, c.shape[1],
                         IF t = c.odd THEN c.shape[2] + 1 ELSE c.shape[2], t)]]

----------------------------------------------------------------------------
(* State *)

VARIABLES
    layers,        \* LAYER_LIST: the selected layers
    fy_str,        \* FUTURE_YEARS
    model_idx,     \* MODEL_TYPE
    norm_idx,      \* NORMALIZATION
    canceled,      \* feedback.isCanceled()
    pc,            \* position in processAlgorithm
    err,           \* the exception that ended the run
    future_years,
    data,          \* the stacked rasters, data[t][row][col]
    H, W,
    nodata_val,
    valid_mask,    \* valid_mask[row][col]
    preds,         \* preds[j][idx] until line 175, preds[j][row][col] after
    r2_vals,
    rmse_vals,
    idx,           \* the loop variable: the next pixel of range(n_pixels)
    broke,         \* the loop was left by the break of line 142
    pixel_state,   \* per pixel: "unvisited", "skipped" or "fitted"
    progress,      \* the values passed to feedback.setProgress, in order
    stats,         \* the metric summary of lines 183-188
    scatter,       \* the points of the scatter plot
    written,       \* the rasters written, by future year
    results        \* the returned dictionary: its keys

inputs == <<layers, fy_str, model_idx, norm_idx>>
arrays == <<preds, r2_vals, rmse_vals>>
loaded == <<future_years, data, H, W, nodata_val, valid_mask>>
outputs == <<stats, scatter, written, results>>
vars == <<inputs, canceled, pc, err, loaded, arrays, idx, broke, pixel_state,
          progress, outputs>>

NoError == [type |-> "none", line |-> 0]
NoStats == [computed |-> "none", r2_mean |-> NaN, r2_min |-> NaN, r2_max |-> NaN,
            mse_min |-> NaN, mse_max |-> NaN, robust_pct |-> NaN]

n_pixels == H * W
n_future == Len(future_years)
Pixels == 0..(n_pixels - 1)
model_name == ModelNames[model_idx + 1]
norm_name == NormNames[norm_idx + 1]

\* grid.flat[i]: row-major
FlatAt(grid, w, i) == grid[(i \div w) + 1][(i % w) + 1]

\* flat.reshape((h, w))
Reshape(flat, h, w) == [r \in 1..h |-> [c \in 1..w |-> flat[(r - 1) * w + (c - 1)]]]

Shape(band) == <<Len(band), IF Len(band) = 0 THEN 0 ELSE Len(band[1])>>

Init ==
    /\ \E c \in Configs :
         /\ layers = MkLayers(c)
         /\ fy_str = c.fy
         /\ model_idx = c.model
         /\ norm_idx = c.norm
    /\ canceled = FALSE
    /\ pc = "start"
    /\ err = NoError
    /\ future_years = <<>>
    /\ data = <<>>
    /\ H = 0
    /\ W = 0
    /\ nodata_val = None
    /\ valid_mask = <<>>
    /\ preds = <<>>
    /\ r2_vals = <<>>
    /\ rmse_vals = <<>>
    /\ idx = 0
    /\ broke = FALSE
    /\ pixel_state = <<>>
    /\ progress = <<>>
    /\ stats = NoStats
    /\ scatter = {}
    /\ written = <<>>
    /\ results = {}

----------------------------------------------------------------------------
(* Lines 98-140: validation, loading, the mask and the output arrays *)

\* [... for lyr in layers if lyr and lyr.isValid()]
Paths(ls) == SelectSeq(ls, LAMBDA l : l.valid)

\* One raster is taken for enough.
TooFewRasters_One(paths) == Len(paths) < 1

TooFewRasters(paths) == Len(paths) < 2

NoFutureYears(fy) == Len(fy) = 0

\* np.stack raises ValueError unless every array has the shape of the first
ShapesDiffer(paths) == \E t \in 1..Len(paths) : Shape(paths[t].band) # Shape(paths[1].band)

\* Only the first raster is compared with the sentinel.
ValidMask_FirstLayerOnly(d, nd, h, w) ==
    [r \in 1..h |-> [c \in 1..w |-> IF nd = None THEN TRUE ELSE ~FEq(d[1][r][c], nd)]]

\* np.all in place of np.any.
ValidMask_All(d, nd, h, w) ==
    [r \in 1..h |-> [c \in 1..w |->
        IF nd = None THEN TRUE
        ELSE ~(\A t \in 1..Len(d) : FEq(d[t][r][c], nd))]]

\* ~np.any(data == nodata_val, axis=0) if nodata_val is not None
\*   else np.ones((H,W),bool)
ValidMask(d, nd, h, w) ==
    [r \in 1..h |-> [c \in 1..w |->
        IF nd = None THEN TRUE
        ELSE ~(\E t \in 1..Len(d) : FEq(d[t][r][c], nd))]]

Raise(type, line) ==
    /\ pc' = "error"
    /\ err' = [type |-> type, line |-> line]

StartTooFew ==
    /\ pc = "start"
    /\ TooFewRasters(Paths(layers))
    /\ Raise("QgsProcessingException", 101)
    /\ UNCHANGED <<inputs, canceled, loaded, arrays, idx, broke, pixel_state,
                   progress, outputs>>

StartNoYears ==
    /\ pc = "start"
    /\ ~TooFewRasters(Paths(layers))
    /\ NoFutureYears(ParseFutureYears(fy_str))
    /\ Raise("QgsProcessingException", 107)
    /\ UNCHANGED <<inputs, canceled, loaded, arrays, idx, broke, pixel_state,
                   progress, outputs>>

StartShapeMismatch ==
    /\ pc = "start"
    /\ ~TooFewRasters(Paths(layers))
    /\ ~NoFutureYears(ParseFutureYears(fy_str))
    /\ ShapesDiffer(Paths(layers))
    /\ future_years' = ParseFutureYears(fy_str)
    /\ Raise("ValueError", 119)
    /\ UNCHANGED <<inputs, canceled, data, H, W, nodata_val, valid_mask, arrays, idx,
                   broke, pixel_state, progress, outputs>>

Start ==
    /\ pc = "start"
    /\ ~TooFewRasters(Paths(layers))
    /\ ~NoFutureYears(ParseFutureYears(fy_str))
    /\ ~ShapesDiffer(Paths(layers))
    /\ LET paths == Paths(layers)
           d == [t \in 1..Len(paths) |-> paths[t].band]
           h == Shape(d[1])[1]
           w == Shape(d[1])[2]
           fy == ParseFutureYears(fy_str)
       IN  /\ future_years' = fy
           /\ data' = d
           /\ H' = h
           /\ W' = w
           /\ nodata_val' = paths[1].nodata
           /\ valid_mask' = ValidMask(d, paths[1].nodata, h, w)
           /\ preds' = [j \in 1..Len(fy) |-> [i \in 0..(h * w - 1) |-> F(0)]]
           /\ r2_vals' = [i \in 0..(h * w - 1) |-> NaN]
           /\ rmse_vals' = [i \in 0..(h * w - 1) |-> NaN]
           /\ pixel_state' = [i \in 0..(h * w - 1) |-> "unvisited"]
    /\ idx' = 0
    /\ pc' = "loop"
    /\ UNCHANGED <<inputs, canceled, err, broke, progress, outputs>>

----------------------------------------------------------------------------
(* Lines 141-172: the pixel loop *)

\* The user cancels the task while the loop runs.
Cancel ==
    /\ pc = "loop"
    /\ ~canceled
    /\ canceled' = TRUE
    /\ UNCHANGED <<inputs, pc, err, loaded, arrays, idx, broke, pixel_state,
                   progress, outputs>>

\* flat[:,idx]
Series(i) == [t \in 1..Len(data) |-> FlatAt(data[t], W, i)]

\* check_array in mdl.fit rejects a target that holds NaN
FitRejects(y) == \E t \in 1..Len(y) : IsNaN(y[t])

\* The mask is not consulted.
Skips_Never(i) == FALSE

\* if not valid_mask.flat[idx]: continue
Skips(i) == ~FlatAt(valid_mask, W, i)

\* if idx % max(1,n_pixels//100)==0
Reports(i, n) == i % ProgressStep(n) = 0

\* range(n_pixels) is exhausted
LoopExit ==
    /\ pc = "loop"
    /\ idx = n_pixels
    /\ pc' = "clip"
    /\ UNCHANGED <<inputs, canceled, err, loaded, arrays, idx, broke, pixel_state,
                   progress, outputs>>

\* if feedback.isCanceled(): break
LoopCancel ==
    /\ pc = "loop"
    /\ idx < n_pixels
    /\ canceled
    /\ broke' = TRUE
    /\ pc' = "clip"
    /\ UNCHANGED <<inputs, canceled, err, loaded, arrays, idx, pixel_state,
                   progress, outputs>>

LoopSkip ==
    /\ pc = "loop"
    /\ idx < n_pixels
    /\ ~canceled
    /\ Skips(idx)
    /\ pixel_state' = [pixel_state EXCEPT ![idx] = "skipped"]
    /\ idx' = idx + 1
    /\ UNCHANGED <<inputs, canceled, pc, err, loaded, arrays, broke, progress, outputs>>

\* mdl.fit raises: nothing catches it
LoopFitError ==
    /\ pc = "loop"
    /\ idx < n_pixels
    /\ ~canceled
    /\ ~Skips(idx)
    /\ FitRejects(Series(idx))
    /\ Raise("ValueError", 160)
    /\ UNCHANGED <<inputs, canceled, loaded, arrays, idx, broke, pixel_state,
                   progress, outputs>>

LoopFit ==
    /\ pc = "loop"
    /\ idx < n_pixels
    /\ ~canceled
    /\ ~Skips(idx)
    /\ ~FitRejects(Series(idx))
    /\ LET y == Series(idx)
           fit == FitPixel(model_name, norm_name, [t \in 1..Len(y) |-> y[t][1]],
                           future_years)
       IN  /\ preds' = [j \in 1..n_future |-> [preds[j] EXCEPT ![idx] = fit.pred[j]]]
           /\ r2_vals' = [r2_vals EXCEPT ![idx] = fit.r2]
           /\ rmse_vals' = [rmse_vals EXCEPT ![idx] = fit.mse]
    /\ progress' = IF Reports(idx, n_pixels)
                   THEN Append(progress, IntPct(idx, n_pixels))
                   ELSE progress
    /\ pixel_state' = [pixel_state EXCEPT ![idx] = "fitted"]
    /\ idx' = idx + 1
    /\ UNCHANGED <<inputs, canceled, pc, err, loaded, broke, outputs>>

----------------------------------------------------------------------------
(* Lines 175-217: floor, summary, scatter plot, rasters *)

\* The floor is left out.
Maximum0_Identity(x) == x

\* np.maximum(x, 0)
Maximum0(x) == IF IsNaN(x) THEN x ELSE IF x[1] < 0 THEN F(0) ELSE x

\* preds = np.maximum(preds,0).reshape((n_future,H,W))
Clip ==
    /\ pc = "clip"
    /\ preds' = [j \in 1..n_future |->
                    Reshape([i \in Pixels |-> Maximum0(preds[j][i])], H, W)]
    /\ pc' = "summary"
    /\ UNCHANGED <<inputs, canceled, err, loaded, r2_vals, rmse_vals, idx, broke,
                   pixel_state, progress, outputs>>

\* r2_vals[~np.isnan(r2_vals)], as the indices kept
Defined(a) == {i \in DOMAIN a : ~IsNaN(a[i])}

RatAdd(a, b) == Rat(a[1] * b[2] + b[1] * a[2], a[2] * b[2])

RECURSIVE RatSum(_, _)
RatSum(a, S) ==
    IF S = {} THEN F(0)
    ELSE LET i == CHOOSE i \in S : TRUE IN RatAdd(a[i], RatSum(a, S \ {i}))

RatMin(a, S) == LET i == CHOOSE i \in S : \A k \in S : ~FLess(a[k], a[i]) IN a[i]
RatMax(a, S) == LET i == CHOOSE i \in S : \A k \in S : ~FLess(a[i], a[k]) IN a[i]

\* vr2.mean(): the mean of an empty array is NaN, with a RuntimeWarning
Mean(a, S) ==
    IF S = {} THEN NaN
    ELSE LET t == RatSum(a, S) IN Rat(t[1], t[2] * Cardinality(S))

\* vr2.min(), vr2.max() raise ValueError on an empty array
ReductionRaises(S) == S = {}

\* The f-string of line 185 evaluates vr2.mean() and then vr2.min().
LogMetricsEmpty ==
    /\ pc = "summary"
    /\ ReductionRaises(Defined(r2_vals))
    /\ stats' = [stats EXCEPT !.computed = "mean",
                              !.r2_mean = Mean(r2_vals, Defined(r2_vals))]
    /\ Raise("ValueError", 185)
    /\ UNCHANGED <<inputs, canceled, loaded, arrays, idx, broke, pixel_state,
                   progress, scatter, written, results>>

LogMetrics ==
    /\ pc = "summary"
    /\ ~ReductionRaises(Defined(r2_vals))
    /\ LET vr2 == Defined(r2_vals)
           vrm == Defined(rmse_vals)
           robust == {i \in vr2 : ~FLess(r2_vals[i], <<7, 10>>)}
       IN  stats' = [computed |-> "all",
                     r2_mean |-> Mean(r2_vals, vr2),
                     r2_min |-> RatMin(r2_vals, vr2),
                     r2_max |-> RatMax(r2_vals, vr2),
                     mse_min |-> RatMin(rmse_vals, vrm),
                     mse_max |-> RatMax(rmse_vals, vrm),
                     robust_pct |-> Rat(100 * Cardinality(robust), Cardinality(vr2))]
    /\ pc' = "scatter"
    /\ UNCHANGED <<inputs, canceled, err, loaded, arrays, idx, broke, pixel_state,
                   progress, scatter, written, results>>

\* Lines 191-203: the sample is every valid pixel while there are at most
\* 10000 of them, and 10000 of them drawn without replacement otherwise.
ScatterPlot ==
    /\ pc = "scatter"
    /\ LET valid == {i \in Pixels : FlatAt(valid_mask, W, i)}
           point(i) == <<FlatAt(data[Len(data)], W, i), FlatAt(preds[1], W, i)>>
       IN  IF Cardinality(valid) <= 10000
           THEN scatter' = {point(i) : i \in valid}
           ELSE \E S \in SUBSET valid :
                    /\ Cardinality(S) = 10000
                    /\ scatter' = {point(i) : i \in S}
    /\ pc' = "save"
    /\ UNCHANGED <<inputs, canceled, err, loaded, arrays, idx, broke, pixel_state,
                   progress, stats, written, results>>

\* Lines 206-217: one file per future year, named by the year, a later
\* file of the same name replacing an earlier one.
SaveRasters ==
    /\ pc = "save"
    /\ LET yrs == {future_years[j] : j \in 1..n_future}
           last(y) == CHOOSE j \in 1..n_future :
                          /\ future_years[j] = y
                          /\ \A k \in (j + 1)..n_future : future_years[k] # y
       IN  /\ written' = [y \in yrs |-> preds[last(y)]]
           /\ results' = yrs
    /\ pc' = "done"
    /\ UNCHANGED <<inputs, canceled, err, loaded, arrays, idx, broke, pixel_state,
                   progress, stats, scatter>>

Next ==
    \/ StartTooFew
    \/ StartNoYears
    \/ StartShapeMismatch
    \/ Start
    \/ Cancel
    \/ LoopExit
    \/ LoopCancel
    \/ LoopSkip
    \/ LoopFitError
    \/ LoopFit
    \/ Clip
    \/ LogMetricsEmpty
    \/ LogMetrics
    \/ ScatterPlot
    \/ SaveRasters

Spec == Init /\ [][Next]_vars

----------------------------------------------------------------------------
(* Vocabulary of the properties *)

\* The rasters are loaded and the output arrays exist.
Loaded == Len(data) > 0

\* Line 175 has run.
Floored ==
    \/ pc \in {"summary", "scatter", "save", "done"}
    \/ pc = "error" /\ err.line = 185

\* The run is over.
Ended == pc \in {"done", "error"}

\* The entry of pixel i in the j-th prediction grid, before and after the
\* reshape of line 175.
PredAt(j, i) == IF Floored THEN FlatAt(preds[j], W, i) ELSE preds[j][i]

\* Pixel i holds the sentinel at some time step.
HoldsSentinel(i) ==
    /\ nodata_val # None
    /\ \E t \in 1..Len(data) : FEq(FlatAt(data[t], W, i), nodata_val)

Undefined(a) == {i \in Pixels : IsNaN(a[i])}

Unvisited == {i \in Pixels : i >= idx}

\* What the fit of pixel i yields, from its own series alone.
OwnFit(i) ==
    LET y == Series(i)
    IN  FitPixel(model_name, norm_name, [t \in 1..Len(y) |-> y[t][1]], future_years)

----------------------------------------------------------------------------
(* C1 *)

\* C1 as stated: when the loop is stopped by the cancellation signal, the
\* number of pixels with defined R2/RMSE is at most the number of pixels
\* visited, and the pixels whose metrics are undefined are exactly the
\* unvisited ones.
C1_CancelledUndefinedAreUnvisited ==
    broke =>
        /\ Cardinality(Defined(r2_vals)) <= idx
        /\ Cardinality(Defined(rmse_vals)) <= idx
        /\ Undefined(r2_vals) = Unvisited
        /\ Undefined(rmse_vals) = Unvisited

\* C1 amended: when the loop is stopped by the cancellation signal, the
\* number of pixels with defined R2/RMSE is at most the number of pixels
\* visited, and the pixels whose metrics are undefined are exactly the
\* unvisited ones together with the visited ones that hold the sentinel.
C1_CancelledUndefinedAreUnvisitedOrInvalid ==
    broke =>
        /\ Cardinality(Defined(r2_vals)) <= idx
        /\ Cardinality(Defined(rmse_vals)) <= idx
        /\ Undefined(r2_vals) = Unvisited \cup {i \in Pixels : HoldsSentinel(i)}
        /\ Undefined(rmse_vals) = Unvisited \cup {i \in Pixels : HoldsSentinel(i)}

\* The loop was cancelled after a fitted and a skipped pixel, with pixels left.
C1_Witness ==
    /\ broke
    /\ idx < n_pixels
    /\ \E i \in Pixels : i < idx /\ HoldsSentinel(i)
    /\ \E i \in Pixels : i < idx /\ ~IsNaN(r2_vals[i])

----------------------------------------------------------------------------
(* C2 *)

\* C2: in every state of the run and in the written rasters, a pixel that
\* the validity mask marks invalid (one that holds the sentinel) has 0 in
\* every future-year prediction grid and NaN as its R2 and RMSE.
C2_InvalidPixelsKeepDefaults ==
    Loaded =>
        \A i \in Pixels :
            HoldsSentinel(i) =>
                /\ \A j \in 1..n_future : PredAt(j, i) = F(0)
                /\ IsNaN(r2_vals[i])
                /\ IsNaN(rmse_vals[i])
                /\ pc = "done" =>
                       \A y \in DOMAIN written : FlatAt(written[y], W, i) = F(0)

\* The rasters are written, with an invalid pixel and a fitted pixel whose
\* prediction is not 0.
C2_Witness ==
    /\ pc = "done"
    /\ \E i \in Pixels : HoldsSentinel(i)
    /\ \E i \in Pixels : \E y \in DOMAIN written : FlatAt(written[y], W, i) # F(0)

----------------------------------------------------------------------------
(* C3 *)

\* C3: a run whose loop was stopped by the cancellation signal, at any
\* pixel index, does not end in an error; it ends with the floored grids
\* written and returned, one per future year.
C3_CancelledRunReturnsResult ==
    broke =>
        /\ pc # "error"
        /\ pc = "done" =>
               /\ results = {future_years[j] : j \in 1..n_future}
               /\ DOMAIN written = results

----------------------------------------------------------------------------
(* C4 *)

\* Fewer than two of the selected layers are valid.
FaultTooFew == Cardinality({t \in 1..Len(layers) : layers[t].valid}) < 2

\* No item of the comma-separated string is a number.
FaultNoYears ==
    LET toks == Split(fy_str)
    IN  \A k \in 1..Len(toks) : ~IsDigit(Strip(toks[k]))

\* Two valid layers differ in shape.
FaultShape ==
    \E t, u \in 1..Len(layers) :
        /\ layers[t].valid
        /\ layers[u].valid
        /\ Shape(layers[t].band) # Shape(layers[u].band)

----------------------------------------------------------------------------
(* C5 *)

\* C5: when no pixel has a defined R2, the summary raises the dedicated
\* empty-result error and computes no statistic, the NaN mean included.
C5_EmptySummaryRaisesEmptyResultError ==
    (Loaded /\ Floored /\ pc # "summary" /\ Defined(r2_vals) = {}) =>
        /\ pc = "error"
        /\ err.type = "EmptyResultError"
        /\ stats = NoStats

----------------------------------------------------------------------------
(* C6 *)

\* C6: a numerical failure at one pixel never aborts the run: no run ends
\* in the exception of the fit, the failing pixel is passed with undefined
\* metrics and the loop goes on to the pixels after it.
C6_NumericalFailureAbsorbed ==
    /\ ~(pc = "error" /\ err.line = 160)
    /\ Loaded /\ Ended /\ ~broke =>
           \A i \in Pixels :
               ~Skips(i) /\ FitRejects(Series(i)) =>
                   /\ pixel_state[i] # "unvisited"
                   /\ IsNaN(r2_vals[i])
                   /\ \A k \in Pixels :
                          k > i /\ ~Skips(k) /\ ~FitRejects(Series(k)) =>
                              pixel_state[k] = "fitted"

----------------------------------------------------------------------------
(* C7 *)

\* C7: after the floor step every entry of every future-year prediction
\* grid is a number >= 0, for fitted, skipped and unvisited pixels alike,
\* and so is every entry of the written rasters.
C7_PredictionsNonNegativeAfterFloor ==
    Floored =>
        /\ \A j \in 1..n_future : \A i \in Pixels :
               ~IsNaN(PredAt(j, i)) /\ PredAt(j, i)[1] >= 0
        /\ \A y \in DOMAIN written : \A i \in Pixels :
               ~IsNaN(FlatAt(written[y], W, i)) /\ FlatAt(written[y], W, i)[1] >= 0

\* The rasters are written; a fitted pixel's regression output was negative,
\* another pixel was skipped and another never visited.
C7_Witness ==
    /\ pc = "done"
    /\ \E i \in Pixels : \E j \in 1..n_future :
           pixel_state[i] = "fitted" /\ OwnFit(i).pred[j][1] < 0
    /\ \E i \in Pixels : pixel_state[i] = "skipped"
    /\ \E i \in Pixels : pixel_state[i] = "unvisited"

----------------------------------------------------------------------------
(* C8 *)

\* The mask the rasters call for: a pixel is valid iff none of its values,
\* over the valid layers, equals the sentinel of the first; every pixel is
\* valid when there is no sentinel.
MaskAsSpecified ==
    LET ps == Paths(layers)
    IN  /\ Len(valid_mask) = H
        /\ \A r \in 1..H :
               /\ Len(valid_mask[r]) = W
               /\ \A c \in 1..W :
                      valid_mask[r][c] <=>
                          \/ ps[1].nodata = None
                          \/ \A t \in 1..Len(ps) : ~FEq(ps[t].band[r][c], ps[1].nodata)

----------------------------------------------------------------------------
(* C9 *)

\* C9: the loop visits the pixels in row-major order 0..H*W-1, so the
\* pixels that made their one transition are those below idx; a visited
\* pixel's slots hold the defaults (skipped) or the fit of its own series
\* (fitted), an unvisited pixel's slots the defaults; and a run that ended
\* without cancellation has taken every pixel through its transition.
C9_EachPixelOnceInOrder ==
    Loaded =>
        /\ \A i \in Pixels : pixel_state[i] # "unvisited" <=> i < idx
        /\ \A i \in Pixels :
               IF pixel_state[i] = "fitted"
               THEN /\ ~Floored => \A j \in 1..n_future : preds[j][i] = OwnFit(i).pred[j]
                    /\ r2_vals[i] = OwnFit(i).r2
                    /\ rmse_vals[i] = OwnFit(i).mse
               ELSE /\ \A j \in 1..n_future : PredAt(j, i) = F(0)
                    /\ IsNaN(r2_vals[i])
                    /\ IsNaN(rmse_vals[i])
        /\ Ended /\ ~canceled => \A i \in Pixels : pixel_state[i] # "unvisited"

----------------------------------------------------------------------------
(* C10 *)

\* The visited pixels that report, in index order: fitted, at a multiple of
\* max(1, n_pixels // 100).
Reporting ==
    SelectSeq([k \in 1..idx |-> k - 1],
              LAMBDA i : /\ pixel_state[i] = "fitted"
                         /\ i % (IF n_pixels >= 200 THEN n_pixels \div 100 ELSE 1) = 0)

\* C10 as stated: whatever the grid and the mask, fewer progress reports
\* are issued than pixels are visited, and a report is the percentage of
\* the pixels visited so far.
C10_ProgressThrottled ==
    Loaded /\ idx > 0 =>
        /\ Len(progress) < idx
        /\ \A k \in 1..Len(progress) :
               /\ progress[k] \in 0..100
               /\ k > 1 => progress[k - 1] <= progress[k]

\* C10 amended: a report is issued for the fitted pixels whose index is a
\* multiple of max(1, n_pixels // 100) and for no other, in index order:
\* for every fitted pixel of a grid of fewer than 200 pixels, for at most
\* every second pixel of a larger one.  The value reported for pixel i is
\* the percentage of the i pixels visited before it, rounded down, or one
\* less where 100*i/n_pixels is a whole number.
C10_ProgressOnFittedMultiples ==
    Loaded =>
        LET rep == Reporting
        IN  /\ Len(progress) = Len(rep)
            /\ \A k \in 1..Len(rep) :
                   LET q == (100 * rep[k]) \div n_pixels
                   IN  /\ progress[k] \in {q - 1, q}
                       /\ (100 * rep[k]) % n_pixels # 0 => progress[k] = q
                       /\ progress[k] >= 0
            /\ n_pixels < 200 =>
                   Len(progress) = Cardinality({i \in Pixels : pixel_state[i] = "fitted"})
            /\ n_pixels >= 200 => 2 * Len(progress) <= idx + 1

\* On a grid of 200 pixels or more the loop ran to its end, past skipped
\* pixels, and a report fell one short of the rounded-down percentage.
C10_Witness ==
    /\ Loaded
    /\ n_pixels >= 200
    /\ idx = n_pixels
    /\ \E i \in Pixels : pixel_state[i] = "skipped"
    /\ LET rep == Reporting
       IN  \E k \in 1..Len(rep) : progress[k] = ((100 * rep[k]) \div n_pixels) - 1

====
